---- MODULE Spec2Model ----
(***************************************************************************)
(* Model of the gator CLI (src/main.go, second `package main` unit,        *)
(* lines 78-367): the command dispatcher, the seven registered handlers    *)
(* and fetchFeed.  Every CLI invocation is one process that reads the      *)
(* persisted config, runs one handler and exits; the state is therefore    *)
(* the persisted state (database tables, config file) plus the position    *)
(* of an `agg` invocation that is blocked in its network call.             *)
(***************************************************************************)
EXTENDS Integers, Sequences, FiniteSets, TLC

VARIABLES
    users,        \* users table: the set of registered names (name is unique)
    currentUser,  \* config file: CurrentUserName ("" when unset)
    cfgWritable,  \* environment: whether the config file can be rewritten
    feeds,        \* feeds table: url -> [name, user, last_fetched_at]
    posts,        \* posts table: set of [url, feed]
    pc,           \* "shell" or "fetching" (agg is inside http.DefaultClient.Do)
    last,         \* most recent event: [name, nargs, arg0, err]
    fetchUrl,     \* feedURL argument of the fetchFeed call in progress / last made
    response,     \* what the network hands to fetchFeed
    result        \* what fetchFeed returned: [feed, err], or NoResult

vars == <<users, currentUser, cfgWritable, feeds, posts, pc, last,
          fetchUrl, response, result>>

----------------------------------------------------------------------------
(* Bounds and value sets *)

MaxArgs == 3
MaxItems == 2

Names == {"alice", "bob"}
WagsUrl == "https://www.wagslane.dev/index.xml"
BlogUrl == "https://blog.example/rss"
BadUrl == "%zz:bad"
FeedArgs == {"Blog", BlogUrl}
Interval == "1m"
Extra == "extra"
NoUser == ""
NoArg == "<none>"
NoUrl == "<nourl>"
Null == "null"

SeqsUpTo(S, n) == UNION {[1..k -> S] : k \in 0..n}
\* Argument lists the commands are tried with, 0..MaxArgs arguments each.
NameArgLists == SeqsUpTo(Names, MaxArgs)
FeedArgLists == SeqsUpTo(FeedArgs, MaxArgs)
AggArgLists == SeqsUpTo({Interval}, MaxArgs)
ExtraArgLists == SeqsUpTo({Extra}, MaxArgs)

----------------------------------------------------------------------------
(* Text: a string is a sequence of one-character strings, so that entity   *)
(* decoding is computed and not assumed.                                    *)

NameChars == {"a", "m", "p", "x"}
AmpName == <<"a", "m", "p">>

TxtX == <<"x">>
TxtAmp == <<"&">>
TxtEsc == <<"&", "a", "m", "p", ";">>
TxtEsc2 == <<"&", "a", "m", "p", ";", "a", "m", "p", ";">>

\* Length of the run of name characters of s that starts at position i.
RECURSIVE NameRun(_, _)
NameRun(s, i) ==
    IF i <= Len(s) /\ s[i] \in NameChars THEN 1 + NameRun(s, i + 1) ELSE 0

StartsWithAmp(s, i) ==
    /\ i + 2 <= Len(s)
    /\ SubSeq(s, i, i + 2) = AmpName

\* html.UnescapeString restricted to the entity "amp": "&amp;" and "&amp"
\* decode to "&"; a longer name that starts with "amp" decodes its prefix
\* (the entity table lists amp without a semicolon); any other "&" is kept.
RECURSIVE UnescapeFrom(_, _)
UnescapeFrom(s, i) ==
    IF i > Len(s) THEN <<>>
    ELSE IF s[i] # "&" THEN <<s[i]>> \o UnescapeFrom(s, i + 1)
    ELSE LET n == NameRun(s, i + 1)
             semi == (i + n + 1 <= Len(s)) /\ s[i + n + 1] = ";"
         IN  IF n = 3 /\ StartsWithAmp(s, i + 1)
             THEN <<"&">> \o UnescapeFrom(s, i + 4 + (IF semi THEN 1 ELSE 0))
             ELSE IF n > 3 /\ StartsWithAmp(s, i + 1)
             THEN <<"&">> \o UnescapeFrom(s, i + 4)
             ELSE <<"&">> \o UnescapeFrom(s, i + 1)

UnescapeString(s) == UnescapeFrom(s, 1)

\* Character data as encoding/xml reads it (strict mode): every "&" must
\* start a predefined entity closed by ";", else the document is rejected.
RECURSIVE XmlTextOk(_, _)
XmlTextOk(s, i) ==
    IF i > Len(s) THEN TRUE
    ELSE IF s[i] # "&" THEN XmlTextOk(s, i + 1)
    ELSE /\ StartsWithAmp(s, i + 1)
         /\ i + 4 <= Len(s)
         /\ s[i + 4] = ";"
         /\ XmlTextOk(s, i + 5)

RECURSIVE XmlTextFrom(_, _)
XmlTextFrom(s, i) ==
    IF i > Len(s) THEN <<>>
    ELSE IF s[i] # "&" THEN <<s[i]>> \o XmlTextFrom(s, i + 1)
    ELSE <<"&">> \o XmlTextFrom(s, i + 5)

XmlText(s) == XmlTextFrom(s, 1)

----------------------------------------------------------------------------
(* RSS documents, network responses and fetchFeed *)

RawTexts == {TxtX, TxtEsc, TxtEsc2, TxtAmp}
Link1 == "https://blog.example/1"
Link2 == "https://blog.example/2"
Links == {Link1, Link2}
PubDate == "Mon, 02 Jan 2006 15:04:05 -0700"

RSSItems(texts, links) ==
    [Title : texts, Link : links, Description : {TxtX}, PubDate : {PubDate}]

RSSFeeds(texts, links) ==
    [Title : texts, Link : {BlogUrl}, Description : texts,
     Item : SeqsUpTo(RSSItems(texts, links), MaxItems)]

\* The zero value RSSFeed{}.
EmptyFeed == [Title |-> <<>>, Link |-> "", Description |-> <<>>, Item |-> <<>>]

\* A body is not XML at all, well-formed XML without a channel, or an RSS
\* document whose text fields are still XML-escaped.
Garbage == [form |-> "garbage", doc |-> EmptyFeed]
OtherXml == [form |-> "otherxml", doc |-> EmptyFeed]
Bodies(texts, links) ==
    {Garbage, OtherXml} \cup [form : {"rss"}, doc : RSSFeeds(texts, links)]

ResponsesOver(texts, links) ==
    {[kind |-> "httpErr", body |-> Garbage], [kind |-> "readErr", body |-> Garbage]}
    \cup [kind : {"body"}, body : Bodies(texts, links)]

Responses == ResponsesOver(RawTexts, Links)
AggResponses == ResponsesOver({TxtX}, {Link1})
FetchUrls == {WagsUrl, BadUrl}

DocTextsOk(doc) ==
    /\ XmlTextOk(doc.Title, 1)
    /\ XmlTextOk(doc.Description, 1)
    /\ \A i \in 1..Len(doc.Item) :
          XmlTextOk(doc.Item[i].Title, 1) /\ XmlTextOk(doc.Item[i].Description, 1)

XmlItem(it) ==
    [Title |-> XmlText(it.Title), Link |-> it.Link,
     Description |-> XmlText(it.Description), PubDate |-> it.PubDate]

\* xml.Unmarshal(body, &newRSSFeed): a syntax error is reported; well-formed
\* XML without a <channel> leaves the struct at its zero value, no error.
XmlUnmarshal(body) ==
    IF body.form = "garbage" THEN [err |-> TRUE, feed |-> EmptyFeed]
    ELSE IF body.form = "otherxml" THEN [err |-> FALSE, feed |-> EmptyFeed]
    ELSE IF ~DocTextsOk(body.doc) THEN [err |-> TRUE, feed |-> EmptyFeed]
    ELSE [err |-> FALSE,
          feed |-> [Title |-> XmlText(body.doc.Title), Link |-> body.doc.Link,
                    Description |-> XmlText(body.doc.Description),
                    Item |-> [i \in 1..Len(body.doc.Item) |-> XmlItem(body.doc.Item[i])]]]

\* The loop `for _, item := range newRSSFeed.Channel.Item` assigns to the
\* loop variable, a copy of the element: the slice is left as parsed.
UnescapeItems(items) == items

\* fetchFeed(ctx, feedURL) with the network's answer made explicit.
fetchFeed(feedURL, resp) ==
    IF feedURL = BadUrl THEN [feed |-> EmptyFeed, err |-> TRUE]
    ELSE IF resp.kind = "httpErr" THEN [feed |-> EmptyFeed, err |-> TRUE]
    ELSE IF resp.kind = "readErr" THEN [feed |-> EmptyFeed, err |-> TRUE]
    ELSE LET parsed == XmlUnmarshal(resp.body) IN
         IF parsed.err THEN [feed |-> EmptyFeed, err |-> FALSE]
         ELSE [feed |-> [parsed.feed EXCEPT
                           !.Title = UnescapeString(parsed.feed.Title),
                           !.Description = UnescapeString(parsed.feed.Description),
                           !.Item = UnescapeItems(parsed.feed.Item)],
               err |-> FALSE]

NoResponse == [kind |-> "none", body |-> Garbage]
NoResult == [feed |-> EmptyFeed, err |-> FALSE, set |-> FALSE]
Returned(r) == [feed |-> r.feed, err |-> r.err, set |-> TRUE]

----------------------------------------------------------------------------
(* Persistence layer and config writer (internal/database, internal/config) *)

\* GetUser(name): sql.ErrNoRows unless a user of that name exists.
GetUserErr(name) == name \notin users

\* CreateFeed: url is unique in the feeds table.
CreateFeedErr(url) == url \in DOMAIN feeds

NewFeed(name, url, user) ==
    [u \in DOMAIN feeds \cup {url} |->
        IF u = url
        THEN [name |-> name, user |-> user, last_fetched_at |-> Null]
        ELSE feeds[u]]

NoFeeds == [u \in {} |-> Null]

\* Config.SetUser(name): rewrites the config file, or fails and leaves it.
SetUserErr == ~cfgWritable
SetUser(name) ==
    currentUser' = IF cfgWritable THEN name ELSE currentUser

----------------------------------------------------------------------------
(* The handlers.  Each returns through `last`: err is "none" or "error".   *)

Arg0(args) == IF Len(args) > 0 THEN args[1] ELSE NoArg
Event(name, args, err) ==
    [name |-> name, nargs |-> Len(args), arg0 |-> Arg0(args), err |-> err]
Err(b) == IF b THEN "error" ELSE "none"

Fetch == <<fetchUrl, response, result>>

\* handlerLogin as first written (src/main.go:54-65): the name goes to the
\* config without being looked up in the users table.
handlerLoginNoLookup(args) ==
    /\ pc = "shell"
    /\ IF Len(args) = 0
       THEN /\ last' = Event("login", args, "error")
            /\ UNCHANGED currentUser
       ELSE /\ SetUser(args[1])
            /\ last' = Event("login", args, Err(SetUserErr))
    /\ UNCHANGED <<users, cfgWritable, feeds, posts, pc, Fetch>>

handlerLogin(args) ==
    /\ pc = "shell"
    /\ IF Len(args) = 0
       THEN /\ last' = Event("login", args, "error")
            /\ UNCHANGED currentUser
       ELSE IF GetUserErr(args[1])
       THEN /\ last' = Event("login", args, "error")
            /\ UNCHANGED currentUser
       ELSE /\ SetUser(args[1])
            /\ last' = Event("login", args, Err(SetUserErr))
    /\ UNCHANGED <<users, cfgWritable, feeds, posts, pc, Fetch>>

handlerRegister(args) ==
    /\ pc = "shell"
    /\ IF Len(args) = 0
       THEN /\ last' = Event("register", args, "error")
            /\ UNCHANGED <<users, currentUser>>
       ELSE IF ~GetUserErr(args[1])
       THEN /\ last' = Event("register", args, "error")
            /\ UNCHANGED <<users, currentUser>>
       ELSE /\ users' = users \cup {args[1]}
            /\ SetUser(args[1])
            /\ last' = Event("register", args, "none")
    /\ UNCHANGED <<cfgWritable, feeds, posts, pc, Fetch>>

handlerReset(args) ==
    /\ pc = "shell"
    /\ IF Len(args) # 0
       THEN /\ last' = Event("reset", args, "error")
            /\ UNCHANGED <<users, feeds, posts>>
       ELSE /\ feeds' = NoFeeds
            /\ posts' = {}
            /\ users' = {}
            /\ last' = Event("reset", args, "none")
    /\ UNCHANGED <<currentUser, cfgWritable, pc, Fetch>>

handlerUsers(args) ==
    /\ pc = "shell"
    /\ last' = Event("users", args, Err(Len(args) # 0))
    /\ UNCHANGED <<users, currentUser, cfgWritable, feeds, posts, pc, Fetch>>

handlerAddFeed(args) ==
    /\ pc = "shell"
    /\ IF Len(args) < 2 \/ Len(args) > 2
       THEN /\ last' = Event("addfeed", args, "error")
            /\ UNCHANGED feeds
       ELSE IF GetUserErr(currentUser)
       THEN /\ last' = Event("addfeed", args, "error")
            /\ UNCHANGED feeds
       ELSE IF CreateFeedErr(args[2])
       THEN /\ last' = Event("addfeed", args, "error")
            /\ UNCHANGED feeds
       ELSE /\ feeds' = NewFeed(args[1], args[2], currentUser)
            /\ last' = Event("addfeed", args, "none")
    /\ UNCHANGED <<users, currentUser, cfgWritable, posts, pc, Fetch>>

handlerFeeds(args) ==
    /\ pc = "shell"
    /\ last' = Event("feeds", args,
                     Err(Len(args) > 0 \/ \E u \in DOMAIN feeds : feeds[u].user \notin users))
    /\ UNCHANGED <<users, currentUser, cfgWritable, feeds, posts, pc, Fetch>>

\* handlerAgg up to the point where fetchFeed blocks in http.DefaultClient.Do.
handlerAggCall(args) ==
    /\ pc = "shell"
    /\ pc' = "fetching"
    /\ fetchUrl' = WagsUrl
    /\ response' = NoResponse
    /\ result' = NoResult
    /\ last' = Event("agg", args, "running")
    /\ UNCHANGED <<users, currentUser, cfgWritable, feeds, posts>>

\* The network answers; fetchFeed returns and handlerAgg returns with it.
handlerAggReturn(resp) ==
    /\ pc = "fetching"
    /\ pc' = "shell"
    /\ result' = Returned(fetchFeed(fetchUrl, resp))
    /\ last' = [last EXCEPT !.err = Err(fetchFeed(fetchUrl, resp).err)]
    /\ UNCHANGED <<users, currentUser, cfgWritable, feeds, posts, fetchUrl, response>>

\* commands.run on a name that has no registered handler.
runNotFound(args) ==
    /\ pc = "shell"
    /\ last' = Event("follow", args, "error")
    /\ UNCHANGED <<users, currentUser, cfgWritable, feeds, posts, pc, Fetch>>

\* Environment: the config file becomes unwritable or writable again.
Chmod ==
    /\ cfgWritable' = ~cfgWritable
    /\ last' = [name |-> "chmod", nargs |-> 0, arg0 |-> NoArg, err |-> "none"]
    /\ UNCHANGED <<users, currentUser, feeds, posts, pc, Fetch>>

----------------------------------------------------------------------------

Init ==
    /\ users = {}
    /\ currentUser = NoUser
    /\ cfgWritable = TRUE
    /\ feeds = NoFeeds
    /\ posts = {}
    /\ pc = "shell"
    /\ last = [name |-> "start", nargs |-> 0, arg0 |-> NoArg, err |-> "none"]
    /\ fetchUrl = NoUrl
    /\ response = NoResponse
    /\ result = NoResult

Next ==
    \/ \E args \in NameArgLists : handlerLogin(args)
    \/ \E args \in NameArgLists : handlerRegister(args)
    \/ \E args \in ExtraArgLists : handlerReset(args)
    \/ \E args \in ExtraArgLists : handlerUsers(args)
    \/ \E args \in FeedArgLists : handlerAddFeed(args)
    \/ \E args \in ExtraArgLists : handlerFeeds(args)
    \/ \E args \in AggArgLists : handlerAggCall(args)
    \/ \E resp \in AggResponses : handlerAggReturn(resp)
    \/ \E args \in FeedArgLists : runNotFound(args)
    \/ Chmod

Spec == Init /\ [][Next]_vars

(* fetchFeed on its own: the URL and the network's answer are the inputs. *)
FetchInit ==
    /\ users = {}
    /\ currentUser = NoUser
    /\ cfgWritable = TRUE
    /\ feeds = NoFeeds
    /\ posts = {}
    /\ pc = "fetching"
    /\ last = [name |-> "fetchFeed", nargs |-> 0, arg0 |-> NoArg, err |-> "running"]
    /\ fetchUrl \in FetchUrls
    /\ response \in Responses
    /\ result = NoResult

FetchReturn ==
    /\ pc = "fetching"
    /\ pc' = "shell"
    /\ result' = Returned(fetchFeed(fetchUrl, response))
    /\ last' = [last EXCEPT !.err = Err(fetchFeed(fetchUrl, response).err)]
    /\ UNCHANGED <<users, currentUser, cfgWritable, feeds, posts, fetchUrl, response>>

FetchNext == FetchReturn

FetchSpec == FetchInit /\ [][FetchNext]_vars

----------------------------------------------------------------------------
(* Properties *)

AnAggIsFetching == pc = "fetching" /\ last.name = "agg"
AggReturned == pc = "shell" /\ last.name = "agg"

\* Order on last_fetched_at with NULLS FIRST.
FetchedBefore(a, b) == a = Null \/ (b # Null /\ a <= b)
LeastRecentlyFetched ==
    {u \in DOMAIN feeds :
        \A v \in DOMAIN feeds :
            FetchedBefore(feeds[u].last_fetched_at, feeds[v].last_fetched_at)}

\* C1: whenever the network fetch of agg is in progress, the URL being
\* fetched is that of a feed whose last_fetched_at was already set to now
\* (the claim-write precedes the fetch).
C1_ClaimBeforeFetch ==
    AnAggIsFetching =>
        \E u \in DOMAIN feeds : u = fetchUrl /\ feeds[u].last_fetched_at # Null

\* C2: whenever agg fetches while feeds exist, the feed it fetches is one
\* with the smallest last_fetched_at, a never-fetched feed counting as
\* smaller than any fetched one.
C2_LeastRecentlyFetchedFirst ==
    (AnAggIsFetching /\ DOMAIN feeds # {}) => fetchUrl \in LeastRecentlyFetched

\* C3: no two Post rows share a url, and once a fetch cycle has succeeded
\* every item url of its payload is the url of a stored Post.
C3_PostsStoredOnce ==
    /\ \A p \in posts, q \in posts : p.url = q.url => p = q
    /\ (AggReturned /\ last.err = "none") =>
          \A i \in 1..Len(result.feed.Item) :
              \E p \in posts : p.url = result.feed.Item[i].Link

\* C4: a fetch error never makes the agg handler return an error (which
\* main turns into log.Fatalf).
C4_FetchErrorNotFatal ==
    last.name = "agg" => last.err # "error"

\* C5: the scheduler runs indefinitely: once agg is running it never
\* returns control to the shell, whatever the outcome of a fetch.
C5_RunsIndefinitely ==
    [][AnAggIsFetching => pc' = "fetching"]_vars

\* C6: fetchFeed returns a non-nil error whenever the request cannot be
\* made or fails, the body cannot be read, or the body does not parse.
C6_ErrorOnEveryFailure ==
    ( /\ result.set
      /\ \/ fetchUrl = BadUrl
         \/ response.kind \in {"httpErr", "readErr"}
         \/ XmlUnmarshal(response.body).err )
    => result.err

\* C7: in the feed a successful fetchFeed returns, the channel title and
\* description and every item's title and description are entity-decoded.
C7_TextDecoded ==
    ( /\ result.set
      /\ ~result.err
      /\ fetchUrl # BadUrl
      /\ response.kind = "body"
      /\ ~XmlUnmarshal(response.body).err )
    => LET parsed == XmlUnmarshal(response.body).feed IN
       /\ result.feed.Title = UnescapeString(parsed.Title)
       /\ result.feed.Description = UnescapeString(parsed.Description)
       /\ Len(result.feed.Item) = Len(parsed.Item)
       /\ \A i \in 1..Len(parsed.Item) :
             /\ result.feed.Item[i].Title = UnescapeString(parsed.Item[i].Title)
             /\ result.feed.Item[i].Description =
                    UnescapeString(parsed.Item[i].Description)

\* Number of arguments in each command's signature.
Signature ==
    [login |-> 1, register |-> 1, reset |-> 0, users |-> 0,
     addfeed |-> 2, feeds |-> 0, agg |-> 1]

\* C8: a command invoked with an argument count different from its
\* signature returns an error and changes neither users, feeds nor the
\* current user.
C8_ArgCountChecked ==
    [][ (last'.name \in DOMAIN Signature /\ last'.nargs # Signature[last'.name])
        => /\ last'.err = "error"
           /\ UNCHANGED <<users, feeds, currentUser>> ]_vars

\* C9 as stated: login with a name not in users returns an error and
\* leaves the current user unchanged; login with an existing name sets the
\* current user to that name and returns no error.
C9_LoginAsStated ==
    [][ (last'.name = "login" /\ last'.nargs >= 1)
        => /\ last'.arg0 \notin users
                => (last'.err = "error" /\ currentUser' = currentUser)
           /\ last'.arg0 \in users
                => (last'.err = "none" /\ currentUser' = last'.arg0) ]_vars

\* C9 amended: login with a name not in users returns an error and leaves
\* the current user unchanged; login with an existing name sets the current
\* user to that name and returns no error when the config can be written,
\* and returns SetUser's error when it cannot.
C9_Login ==
    [][ (last'.name = "login" /\ last'.nargs >= 1)
        => /\ last'.arg0 \notin users
                => (last'.err = "error" /\ currentUser' = currentUser)
           /\ (last'.arg0 \in users /\ cfgWritable)
                => (last'.err = "none" /\ currentUser' = last'.arg0)
           /\ (last'.arg0 \in users /\ ~cfgWritable)
                => last'.err = "error" ]_vars

\* A login with an existing name has failed because the config could not be
\* written, while another existing user is the current one.
C9_Witness ==
    /\ last.name = "login"
    /\ last.arg0 \in users
    /\ ~cfgWritable
    /\ last.err = "error"
    /\ currentUser \in users
    /\ currentUser # last.arg0

\* C10: the current user of the config is unset or names a user that
\* exists in the users table.
C10_CurrentUserExists ==
    currentUser = NoUser \/ currentUser \in users

====
